---- MODULE Spec2Model ----
(***************************************************************************)
(* Model of the spaced-repetition engine of turkish-cards (src/main.py):   *)
(* normalize_word, StudyEngine (load, pool construction, weighted draw,    *)
(* next_card, answer_know, answer_dont_know, save_words), and of the       *)
(* handlers of TurkishCardsApp (build, load_next, reveal, swipe_right,     *)
(* swipe_left), each handler one step.                                     *)
(*                                                                         *)
(* Strings are sequences of one-character strings.  A word collection is a *)
(* sequence of records; `current` and the pool entries are references into *)
(* the collection and are modelled as indices (0 is Python's None).        *)
(* A JSON value of a numeric field is a record [k, v]: k = "int" (an       *)
(* integer v), "coerce" (a value int() accepts and turns into v, such as   *)
(* True or 7.0), "bad" (a value int() rejects) or "missing" (no such key). *)
(*                                                                         *)
(* An exception that leaves an operation reaches the caller, the Kivy      *)
(* touch handler or TurkishCardsApp.build, which has no handler: the run   *)
(* ends (phase "crashed").  The clock only moves forward.  The body of     *)
(* load_words (lines 116-128) is read as the body of the method, one       *)
(* indentation level deeper than it is written.                            *)
(***************************************************************************)
EXTENDS Integers, Sequences, FiniteSets, TLC

VARIABLES
    phase,      \* "boot" before StudyEngine(...), "ready" after, "crashed" once an exception left an operation
    disk,       \* the file at data_path: [exists, ok, data]
    words,      \* self.words
    pool,       \* self.pool, indices into words
    current,    \* self.current, an index into words, 0 for None
    now,        \* the value time.time() returns
    lastOp,     \* the operation that ran last
    ret,        \* what it returned: [kind, front, back]
    front,      \* TurkishCardsApp.front
    back,       \* TurkishCardsApp.back
    revealed,   \* TurkishCardsApp.revealed
    scheduled   \* the load_next that build gave to Clock.schedule_once is pending

engine == <<phase, disk, words, pool, current, now, lastOp, ret>>
ui == <<front, back, revealed, scheduled>>
vars == <<phase, disk, words, pool, current, now, lastOp, ret, front, back, revealed, scheduled>>

---------------------------------------------------------------------------
(* Program constants                                                       *)

POOL_SIZE == 40
STREAK_TO_GRADUATE == 3
MAX_STAGE == 6
AGAIN_CAP == 10
AGAIN_STEP == 2
DEFAULT_COOLDOWN_DAYS == 2
\* MIN_VERB_SHARE = 0.35, as a fraction
MIN_VERB_SHARE == [num |-> 35, den |-> 100]

STAGE_COOLDOWN_DAYS == [s \in 1..6 |-> CASE s = 1 -> 1 [] s = 2 -> 2 [] s = 3 -> 4
                                           [] s = 4 -> 7 [] s = 5 -> 14 [] s = 6 -> 30]

---------------------------------------------------------------------------
(* Bounds of the model                                                     *)

\* time.time() when the engine is constructed
Epoch == 1000000
\* how many days the clock may run past Epoch
MaxDays == 15
\* the days the clock moves at a time
TickDays == 7
\* answer_know is not taken on a word whose correct count reached this
MaxCorrect == 3
\* sizes of the generated collections of the pool specification
MaxVerbs == 16
MaxOthers == 28

---------------------------------------------------------------------------
(* Strings                                                                 *)

\* a function on 1..n as an explicit list
ListOf(f) == SubSeq(f, 1, Len(f))

\* the one element of a set of one element: The({F(x) : x \in {e}}) is F(e)
\* with e computed once
The(S) == CHOOSE x \in S : TRUE

Min(a, b) == IF a < b THEN a ELSE b
Max(a, b) == IF a > b THEN a ELSE b

UpperChars == <<"A","B","C","D","E","F","G","H","I","J","K","L","M",
                "N","O","P","Q","R","S","T","U","V","W","X","Y","Z">>
LowerChars == <<"a","b","c","d","e","f","g","h","i","j","k","l","m",
                "n","o","p","q","r","s","t","u","v","w","x","y","z">>
Whitespace == {" ", "\t", "\n"}

\* str.lower(), one character
LowerChar(c) ==
    IF \E i \in 1..Len(UpperChars) : UpperChars[i] = c
    THEN LowerChars[CHOOSE i \in 1..Len(UpperChars) : UpperChars[i] = c]
    ELSE c

\* str.lower()
Lower(s) == ListOf([i \in 1..Len(s) |-> LowerChar(s[i])])

\* str.strip()
Strip(s) ==
    LET keep == {i \in 1..Len(s) : s[i] \notin Whitespace}
    IN  IF keep = {} THEN <<>>
        ELSE LET lo == CHOOSE i \in keep : \A j \in keep : i <= j
                 hi == CHOOSE i \in keep : \A j \in keep : i >= j
             IN  SubSeq(s, lo, hi)

\* str.endswith(suffix)
EndsWith(s, suffix) ==
    /\ Len(s) >= Len(suffix)
    /\ SubSeq(s, Len(s) - Len(suffix) + 1, Len(s)) = suffix

\* str.count(" ")
CountSpaces(s) == Cardinality({i \in 1..Len(s) : s[i] = " "})

RECURSIVE JoinFrom(_, _)
JoinFrom(l, i) ==
    IF i > Len(l) THEN <<>>
    ELSE IF i = Len(l) THEN l[i]
    ELSE l[i] \o <<",", " ">> \o JoinFrom(l, i + 1)

\* ", ".join(l)
Join(l) == JoinFrom(l, 1)

\* now() and day_seconds(days)
day_seconds(days) == days * 24 * 60 * 60

is_infinitive_verb(tr) ==
    LET t == Lower(Strip(tr))
    IN  /\ \A i \in 1..Len(t) : t[i] # " "
        /\ \/ EndsWith(t, <<"m","e","k">>)
           \/ EndsWith(t, <<"m","a","k">>)

\* complexity_score(word) times 10, so that it stays an integer:
\* spaces * 10.0 + length / 10.0, minus 3.0 for an infinitive verb
complexity_score10(w) ==
    CountSpaces(w.tr) * 100 + Len(w.tr) - (IF is_infinitive_verb(w.tr) THEN 30 ELSE 0)

---------------------------------------------------------------------------
(* JSON records and normalize_word                                         *)

IntVal(v) == [k |-> "int", v |-> v]
CoerceVal(v) == [k |-> "coerce", v |-> v]
Bad == [k |-> "bad", v |-> 0]
Missing == [k |-> "missing", v |-> 0]

\* int(x) raises for x
IntRaises(x) == x.k = "bad"

\* the body of the loop of normalize_word: int(w.get(k, d)), d when it raises
\* (a missing key was given its default by setdefault before the loop)
IntOrDefault(x, d) == IF x.k \in {"int", "coerce"} THEN x.v ELSE d

Clamp(lo, hi, v) == Min(hi, Max(lo, v))

\* a record as json.load gives it
RawWord(tr, ru, stage, interval, streak, due, again, correct) ==
    [tr |-> tr, ru |-> ru, stage |-> stage, interval |-> interval,
     streak |-> streak, due |-> due, again |-> again, correct |-> correct]

Str(s) == [k |-> "str", s |-> s, l |-> <<>>]
List(l) == [k |-> "list", s |-> <<>>, l |-> l]
NoValue == [k |-> "missing", s |-> <<>>, l |-> <<>>]

\* normalize_word raises: int() of the interval of a record without stage
\* (line 73) and int() of the correct count (line 79) are outside the try
NormalizeRaises(w) ==
    \/ w.stage.k = "missing" /\ IntRaises(w.interval)
    \/ IntRaises(w.correct)

\* the stage of a record before the clamp of line 87
StageOf(w) ==
    IF w.stage.k = "missing"
    THEN LET interval == IF w.interval.k = "missing" THEN 1 ELSE w.interval.v
         IN  Min(MAX_STAGE, Max(0, interval - 1))
    ELSE IntOrDefault(w.stage, 0)

\* normalize_word without the clamps of lines 87-88
normalize_word_unclamped(w) ==
    [tr       |-> IF w.tr.k = "missing" THEN <<>> ELSE w.tr.s,
     ru       |-> CASE w.ru.k = "missing" -> <<>>
                    [] w.ru.k = "str"     -> <<w.ru.s>>
                    [] w.ru.k = "list"    -> w.ru.l,
     stage    |-> StageOf(w),
     streak   |-> IntOrDefault(w.streak, 0),
     due      |-> IntOrDefault(w.due, 0),
     again    |-> IntOrDefault(w.again, 0),
     correct  |-> IntOrDefault(w.correct, 0),
     interval |-> w.interval]

\* the record normalize_word returns when it does not raise; the key
\* "interval" of a legacy record is kept as it was (w = dict(w))
normalize_word(w) ==
    [tr       |-> IF w.tr.k = "missing" THEN <<>> ELSE w.tr.s,
     ru       |-> CASE w.ru.k = "missing" -> <<>>
                    [] w.ru.k = "str"     -> <<w.ru.s>>
                    [] w.ru.k = "list"    -> w.ru.l,
     stage    |-> Clamp(0, MAX_STAGE, StageOf(w)),
     streak   |-> IntOrDefault(w.streak, 0),
     due      |-> IntOrDefault(w.due, 0),
     again    |-> Clamp(0, AGAIN_CAP, IntOrDefault(w.again, 0)),
     correct  |-> IntOrDefault(w.correct, 0),
     interval |-> w.interval]

\* json.dump of one in-memory record
ToJson(w) ==
    [tr |-> Str(w.tr), ru |-> List(w.ru), stage |-> IntVal(w.stage),
     interval |-> w.interval, streak |-> IntVal(w.streak), due |-> IntVal(w.due),
     again |-> IntVal(w.again), correct |-> IntVal(w.correct)]

\* the file save_words writes
Saved(ws) == [exists |-> TRUE, ok |-> TRUE, data |-> ListOf([i \in 1..Len(ws) |-> ToJson(ws[i])])]

\* a file cut short by a failed write, which json.load rejects
Torn == [exists |-> TRUE, ok |-> FALSE, data |-> <<>>]
NoFile == [exists |-> FALSE, ok |-> FALSE, data |-> <<>>]

\* DEFAULT_WORDS (the translations are transliterated)
Word0(tr, ru) == RawWord(Str(tr), List(ru), IntVal(0), Missing, IntVal(0), IntVal(0), IntVal(0), IntVal(0))
TrEv == <<"e","v">>
TrGitmek == <<"g","i","t","m","e","k">>
TrGuzel == <<"g","u","z","e","l">>
TrAlmak == <<"a","l","m","a","k">>
TrZaman == <<"z","a","m","a","n">>
DEFAULT_WORDS ==
    << Word0(TrEv, << <<"d","o","m">> >>),
       Word0(TrGitmek, << <<"i","d","t","i">>, <<"e","h","a","t">>, <<"u","e","z","z","a","t">> >>),
       Word0(TrGuzel, << <<"k","r","a","s","i","v","y","j">>, <<"h","o","r","o","s","h","i","j">>, <<"p","r","i","j","a","t","n","y","j">> >>),
       Word0(TrAlmak, << <<"b","r","a","t">>, <<"p","o","k","u","p","a","t">>, <<"p","o","l","u","c","h","a","t">> >>),
       Word0(TrZaman, << <<"v","r","e","m","j","a">>, <<"p","e","r","i","o","d">> >>) >>

---------------------------------------------------------------------------
(* StudyEngine: eligibility, pool construction, weighted draw              *)

\* eligibility by the due time alone
is_available_now_due_only(w, t) == w.due <= t

is_available_now(w, t) == w.due <= t /\ w.stage < MAX_STAGE

\* s[:n]
Take(s, n) == SubSeq(s, 1, Min(Max(n, 0), Len(s)))

\* round(n / d) as Python rounds: to the nearest integer, a half to the even one
Round(n, d) ==
    LET q == n \div d
        r == n % d
    IN  IF 2 * r < d THEN q
        ELSE IF 2 * r > d THEN q + 1
        ELSE IF q % 2 = 0 THEN q ELSE q + 1

target_verbs ==
    Max(0, Min(Round(POOL_SIZE * MIN_VERB_SHARE.num, MIN_VERB_SHARE.den), POOL_SIZE))

\* list.sort: the records marked in avail by ascending rank
ByRank(all, avail, rank) ==
    ListOf([k \in 1..Cardinality({i \in all : avail[i]}) |-> CHOOSE i \in all : rank[i] = k])

\* the rank of each record in the sort by (stage, complexity_score): the sort
\* is stable, records of equal key keep their collection order
SortRanks(ws, all, avail, score) ==
    ListOf([i \in all |->
        IF avail[i]
        THEN Cardinality({j \in all :
                 /\ avail[j]
                 /\ \/ ws[j].stage < ws[i].stage
                    \/ ws[j].stage = ws[i].stage /\ score[j] < score[i]
                    \/ ws[j].stage = ws[i].stage /\ score[j] = score[i] /\ j < i}) + 1
        ELSE 0])

SortAvailable(ws, all, avail, score) ==
    The({ByRank(all, avail, rank) : rank \in {SortRanks(ws, all, avail, score)}})

\* available after the sort of line 139, as references into ws
SortedAvailable(ws, t) ==
    The({SortAvailable(ws, 1..Len(ws), avail, score) :
            avail \in {ListOf([i \in 1..Len(ws) |-> is_available_now(ws[i], t)])},
            score \in {ListOf([i \in 1..Len(ws) |-> complexity_score10(ws[i])])}})

\* w in l, for a list l of references: Python compares the records by value
InList(ws, l, i) == \E k \in 1..Len(l) : ws[l[k]] = ws[i]

\* w not in l, for every w of available
NotIn(ws, available, l) ==
    LET Keep(i) == ~InList(ws, l, i)
    IN  SelectSeq(available, Keep)

\* lines 152-154: the pool topped up with the records not yet in it
TopUp(ws, available, body) ==
    IF Len(body) < POOL_SIZE
    THEN body \o Take(NotIn(ws, available, body), POOL_SIZE - Len(body))
    ELSE body

\* lines 147-150: the first target_verbs verbs, then the others
VerbsThenOthers(head, others) == head \o Take(others, POOL_SIZE - Len(head))

\* the first POOL_SIZE records of the sorted list, no share kept for verbs
BuildPool_unreserved(ws, available, verbs) == Take(available, POOL_SIZE)

\* lines 141-154
BuildPool(ws, available, verbs) ==
    The({TopUp(ws, available, body) :
            body \in {VerbsThenOthers(Take(verbs, target_verbs), NotIn(ws, available, verbs))}})

VerbsOf(ws, available) ==
    LET IsVerb(i) == is_infinitive_verb(ws[i].tr)
    IN  SelectSeq(available, IsVerb)

PoolOf(ws, available) ==
    The({BuildPool(ws, available, verbs) : verbs \in {VerbsOf(ws, available)}})

\* the pool refresh_pool builds, as references into ws
refresh_pool(ws, t) ==
    The({PoolOf(ws, available) : available \in {SortedAvailable(ws, t)}})

\* the weight pick_from_pool gives a record, as a fraction
Weight(w) ==
    [num |-> 10 * (IF w.again > 0 THEN 10 + 25 * w.again ELSE 10)
                * (IF w.streak = 0 THEN 12 ELSE 10),
     den |-> (10 + 12 * w.stage) * 10 * 10]

\* the records random.choices can return: the pool entries of positive weight
pick_from_pool(ws, p) ==
    {p[k] : k \in {j \in 1..Len(p) : Weight(ws[p[j]]).num * Weight(ws[p[j]]).den > 0}}

---------------------------------------------------------------------------
(* StudyEngine: the effect of the operations on one record                 *)

\* the cooldown of the stage the word leaves
CooldownDays_previous_stage(stage) ==
    IF stage - 1 \in DOMAIN STAGE_COOLDOWN_DAYS THEN STAGE_COOLDOWN_DAYS[stage - 1]
    ELSE DEFAULT_COOLDOWN_DAYS

CooldownDays(stage) ==
    IF stage \in DOMAIN STAGE_COOLDOWN_DAYS THEN STAGE_COOLDOWN_DAYS[stage]
    ELSE DEFAULT_COOLDOWN_DAYS

\* next_card lowering the penalty of a drawn word by two
DrawnWord_by_two(w) == IF w.again > 0 THEN [w EXCEPT !.again = Max(0, w.again - 2)] ELSE w

\* next_card on the drawn record
DrawnWord(w) == IF w.again > 0 THEN [w EXCEPT !.again = Max(0, w.again - 1)] ELSE w

\* answer_know graduating only above the threshold
KnownWord_late(w, t) ==
    LET streak == w.streak + 1
        stage == Min(MAX_STAGE, w.stage + 1)
    IN  IF streak > STREAK_TO_GRADUATE
        THEN [w EXCEPT !.correct = w.correct + 1,
                       !.streak = 0,
                       !.stage = stage,
                       !.due = IF stage < MAX_STAGE
                               THEN t + day_seconds(CooldownDays(stage))
                               ELSE 0]
        ELSE [w EXCEPT !.correct = w.correct + 1,
                       !.streak = streak,
                       !.due = 0]

\* answer_know that keeps the streak when it graduates
KnownWord_keeps_streak(w, t) ==
    LET streak == w.streak + 1
        stage == Min(MAX_STAGE, w.stage + 1)
    IN  IF streak >= STREAK_TO_GRADUATE
        THEN [w EXCEPT !.correct = w.correct + 1,
                       !.streak = streak,
                       !.stage = stage,
                       !.due = IF stage < MAX_STAGE
                               THEN t + day_seconds(CooldownDays(stage))
                               ELSE 0]
        ELSE [w EXCEPT !.correct = w.correct + 1,
                       !.streak = streak,
                       !.due = 0]

\* answer_know on the current record, at time t
KnownWord(w, t) ==
    LET streak == w.streak + 1
        stage == Min(MAX_STAGE, w.stage + 1)
    IN  IF streak >= STREAK_TO_GRADUATE
        THEN [w EXCEPT !.correct = w.correct + 1,
                       !.streak = 0,
                       !.stage = stage,
                       !.due = IF stage < MAX_STAGE
                               THEN t + day_seconds(CooldownDays(stage))
                               ELSE 0]
        ELSE [w EXCEPT !.correct = w.correct + 1,
                       !.streak = streak,
                       !.due = 0]

\* answer_dont_know without the floor of line 237
UnknownWord_no_floor(w) ==
    [w EXCEPT !.streak = 0,
              !.due = 0,
              !.stage = w.stage - 1,
              !.again = Min(AGAIN_CAP, w.again + AGAIN_STEP)]

\* answer_dont_know on the current record
UnknownWord(w) ==
    [w EXCEPT !.streak = 0,
              !.due = 0,
              !.stage = IF w.stage > 0 THEN w.stage - 1 ELSE w.stage,
              !.again = Min(AGAIN_CAP, w.again + AGAIN_STEP)]

\* the card next_card returns for a record: the side is random.choice([True, False])
Card(w, side) ==
    IF side THEN [kind |-> "card", front |-> w.tr, back |-> Join(w.ru)]
    ELSE [kind |-> "card", front |-> Join(w.ru), back |-> w.tr]

NoCard == [kind |-> "none", front |-> <<>>, back |-> <<>>]
Returned == [kind |-> "returned", front |-> <<>>, back |-> <<>>]
Raised == [kind |-> "raised", front |-> <<>>, back |-> <<>>]

\* open(path, "w") and json.dump: the write succeeds, open fails and leaves
\* the file as it was, or the dump fails and leaves a truncated file
WriteOutcomes == {"ok", "denied", "torn"}

\* a save that writes nothing
save_words_skipped(ws, d, wr) == d

\* the file after save_words
save_words(ws, d, wr) ==
    CASE wr = "ok" -> Saved(ws)
      [] wr = "denied" -> d
      [] wr = "torn" -> Torn

\* save_words has no handler: a failed write raises out of the operation
SaveRaises(wr) == wr # "ok"

---------------------------------------------------------------------------
(* The files the engine is started on                                      *)

TrPhrase == <<"g","i","t","m","e","k"," ","e","t","m","e","k">>
TrPadded == <<" ","A","L","M","A","K"," ">>
RuDom == <<"d","o","m">>
RuIdti == <<"i","d","t","i">>

\* a record with every field present, as save_words writes it
W(tr, stage, streak, due, again, correct) ==
    RawWord(Str(tr), List(<<RuDom, RuIdti>>), IntVal(stage), Missing,
            IntVal(streak), IntVal(due), IntVal(again), IntVal(correct))

\* a record of the legacy format: no stage, an interval, a scalar translation
Legacy == RawWord(Str(TrPhrase), Str(RuIdti), Missing, IntVal(3),
                  IntVal(-2), CoerceVal(Epoch + 3600), IntVal(-3), Missing)

\* a record whose numeric fields int() rejects, without text
Garbled == RawWord(NoValue, NoValue, Bad, Missing, Bad, Bad, Bad, Missing)

File(data) == [exists |-> TRUE, ok |-> TRUE, data |-> data]

\* values of the stage and again keys on both sides of the clamps of
\* normalize_word, of every kind int() meets
StageSpellings == {IntVal(-1), IntVal(0), IntVal(6), IntVal(7), CoerceVal(8), Bad, Missing}
AgainSpellings == {IntVal(-1), IntVal(10), IntVal(11), CoerceVal(12), Bad, Missing}

Files ==
    { File(<<W(TrEv, 0, 0, 0, 0, 2), W(TrGitmek, 1, 2, 0, 0, 2)>>),
      File(<<W(TrAlmak, 5, 0, 0, 0, 0), W(TrEv, 9, 0, 0, 15, 1)>>),
      File(<<Legacy>>),
      File(<<Garbled>>),
      File(<<W(TrPadded, -4, 1, Epoch + day_seconds(7), 9, 0)>>),
      File(<<RawWord(Str(TrEv), List(<<RuDom>>), IntVal(1), Missing, IntVal(0), IntVal(0), IntVal(0), Bad)>>),
      Torn }
    \cup { File(<<W(TrAlmak, s, 2, 0, 0, 0)>>) : s \in 0..4 }
    \cup { File(<<RawWord(Str(TrAlmak), List(<<RuDom, RuIdti>>), stage, Missing,
                          IntVal(2), IntVal(0), again, IntVal(0))>>) :
             stage \in StageSpellings, again \in AgainSpellings }

\* the words.json bundled with main.py, when there is one
Seeds == { NoFile, File(<<W(TrZaman, 0, 0, 0, 0, 0)>>) }

\* shutil.copy2: done, failed before writing, failed half way
CopyOutcomes == {"ok", "denied", "torn"}

---------------------------------------------------------------------------
(* Operations                                                              *)

\* __init__, lines 102-109: the file at data_path after the attempt to copy
\* the bundled dictionary
AfterSeedCopy(d, seed, copy) ==
    IF d.exists \/ ~seed.exists THEN d
    ELSE CASE copy = "ok" -> seed
           [] copy = "denied" -> d
           [] copy = "torn" -> Torn

\* load_words raises: json.load rejects the file, or normalize_word raises
LoadRaises(d) ==
    d.exists /\ (~d.ok \/ \E i \in 1..Len(d.data) : NormalizeRaises(d.data[i]))

\* the collection load_words returns when it does not raise
load_words(d) ==
    IF d.exists
    THEN ListOf([i \in 1..Len(d.data) |-> normalize_word(d.data[i])])
    ELSE ListOf([i \in 1..Len(DEFAULT_WORDS) |-> normalize_word(DEFAULT_WORDS[i])])

\* StudyEngine.__init__ and load_words
StudyEngine_init ==
    /\ phase = "boot"
    /\ \E seed \in Seeds, copy \in CopyOutcomes, wr \in WriteOutcomes :
         LET d == AfterSeedCopy(disk, seed, copy)
         IN  /\ IF LoadRaises(d)
                THEN /\ phase' = "crashed"
                     /\ ret' = Raised
                     /\ words' = <<>>
                     /\ disk' = d
                ELSE /\ phase' = "ready"
                     /\ ret' = Returned
                     /\ words' = load_words(d)
                     \* the write of the defaults is inside try/except
                     /\ disk' = IF d.exists THEN d ELSE save_words(words', d, wr)
    /\ pool' = <<>>
    /\ current' = 0
    /\ lastOp' = "load"
    /\ UNCHANGED now

\* StudyEngine(data_path)
Load ==
    /\ StudyEngine_init
    /\ UNCHANGED ui

next_card ==
    /\ phase = "ready"
    /\ lastOp' = "next_card"
    /\ UNCHANGED now
    /\ UNCHANGED ui
    /\ pool' = refresh_pool(words, now)
    /\ IF pool' = <<>>
       THEN /\ ret' = NoCard
            /\ UNCHANGED <<phase, disk, words, current>>
       ELSE \E c \in pick_from_pool(words, pool'), side \in BOOLEAN, wr \in WriteOutcomes :
              /\ current' = c
              /\ words' = [words EXCEPT ![c] = DrawnWord(words[c])]
              /\ IF words[c].again > 0
                 THEN /\ disk' = save_words(words', disk, wr)
                      /\ phase' = IF SaveRaises(wr) THEN "crashed" ELSE "ready"
                      /\ ret' = IF SaveRaises(wr) THEN Raised ELSE Card(words'[c], side)
                 ELSE /\ wr = "ok"
                      /\ ret' = Card(words'[c], side)
                      /\ UNCHANGED <<phase, disk>>

answer_know ==
    /\ phase = "ready"
    /\ lastOp' = "answer_know"
    /\ UNCHANGED <<pool, current, now>>
    /\ UNCHANGED ui
    /\ IF current = 0
       THEN /\ ret' = Returned
            /\ UNCHANGED <<phase, disk, words>>
       ELSE /\ words[current].correct < MaxCorrect
            /\ \E wr \in WriteOutcomes :
                 /\ words' = [words EXCEPT ![current] = KnownWord(words[current], now)]
                 /\ disk' = save_words(words', disk, wr)
                 /\ phase' = IF SaveRaises(wr) THEN "crashed" ELSE "ready"
                 /\ ret' = IF SaveRaises(wr) THEN Raised ELSE Returned

\* answer_dont_know applied to every record of the collection
answer_dont_know_all ==
    /\ phase = "ready"
    /\ lastOp' = "answer_dont_know"
    /\ UNCHANGED <<pool, current, now>>
    /\ UNCHANGED ui
    /\ IF current = 0
       THEN /\ ret' = Returned
            /\ UNCHANGED <<phase, disk, words>>
       ELSE \E wr \in WriteOutcomes :
                 /\ words' = ListOf([i \in 1..Len(words) |-> UnknownWord(words[i])])
                 /\ disk' = save_words(words', disk, wr)
                 /\ phase' = IF SaveRaises(wr) THEN "crashed" ELSE "ready"
                 /\ ret' = IF SaveRaises(wr) THEN Raised ELSE Returned

answer_dont_know ==
    /\ phase = "ready"
    /\ lastOp' = "answer_dont_know"
    /\ UNCHANGED <<pool, current, now>>
    /\ UNCHANGED ui
    /\ IF current = 0
       THEN /\ ret' = Returned
            /\ UNCHANGED <<phase, disk, words>>
       ELSE \E wr \in WriteOutcomes :
                 /\ words' = [words EXCEPT ![current] = UnknownWord(words[current])]
                 /\ disk' = save_words(words', disk, wr)
                 /\ phase' = IF SaveRaises(wr) THEN "crashed" ELSE "ready"
                 /\ ret' = IF SaveRaises(wr) THEN Raised ELSE Returned

\* the clock moves on between two operations
Tick ==
    /\ phase = "ready"
    /\ now + day_seconds(TickDays) <= Epoch + day_seconds(MaxDays)
    /\ now' = now + day_seconds(TickDays)
    /\ UNCHANGED <<phase, disk, words, pool, current, lastOp, ret>>
    /\ UNCHANGED ui

\* the fields of the app before build has run
NoUi ==
    /\ front = <<>>
    /\ back = <<>>
    /\ revealed = FALSE
    /\ scheduled = FALSE

Init ==
    /\ phase = "boot"
    /\ disk \in Files
    /\ words = <<>>
    /\ pool = <<>>
    /\ current = 0
    /\ now = Epoch
    /\ lastOp = "none"
    /\ ret = Returned
    /\ NoUi

Next == Load \/ next_card \/ answer_know \/ answer_dont_know \/ Tick

Spec == Init /\ [][Next]_vars

\* the caller answers each card once: an answer follows a next_card that
\* returned a card, as swipe_right and swipe_left do after load_next
CardShown == lastOp = "next_card" /\ ret.kind = "card"

NextShown == Load \/ next_card \/ (CardShown /\ answer_know) \/ (CardShown /\ answer_dont_know) \/ Tick

SpecCard == Init /\ [][NextShown]_vars

---------------------------------------------------------------------------
(* Pool construction on large collections                                  *)

Rep(c, k) == ListOf([j \in 1..k |-> c])
VerbTr(k) == Rep("a", k) \o (IF k % 2 = 0 THEN <<"m","a","k">> ELSE <<"m","e","k">>)
OtherTr(k) == Rep("e", k)

Shapes == {"plain", "advanced", "resting", "twins"}

\* record i of a collection of nv infinitive verbs followed by no other words:
\* "plain" is a fresh dictionary, "advanced" has its verbs at a higher stage than
\* the rest, "resting" has learned words and words on cooldown, "twins" holds
\* every record twice
GenWord(shape, nv, i) ==
    LET verb == i <= nv
        k == IF verb THEN i ELSE i - nv
        n == IF shape = "twins" THEN k \div 2 ELSE k
        stage == CASE shape = "advanced" -> IF verb THEN 2 ELSE i % 2
                   [] shape = "resting" -> IF i % 4 = 0 THEN MAX_STAGE ELSE i % 3
                   [] OTHER -> 0
        due == IF shape = "resting" /\ i % 5 = 0 THEN Epoch + day_seconds(1) ELSE 0
    IN  W(IF verb THEN VerbTr(n) ELSE OtherTr(n), stage, 0, due, 0, 0)

GenFile(shape, nv, no) == File(ListOf([i \in 1..(nv + no) |-> GenWord(shape, nv, i)]))

\* the engine right after construction on a generated dictionary
InitPool ==
    /\ \E shape \in Shapes,
          nv \in {0, MaxVerbs - 3, MaxVerbs},
          no \in {0, MaxOthers - 2, MaxOthers} :
         /\ disk = GenFile(shape, nv, no)
         /\ words = load_words(disk)
    /\ phase = "ready"
    /\ pool = <<>>
    /\ current = 0
    /\ now = Epoch
    /\ lastOp = "load"
    /\ ret = Returned
    /\ NoUi

NextPool == next_card

SpecPool == InitPool /\ [][NextPool]_vars

---------------------------------------------------------------------------
(* Engine construction on missing, unreadable and legacy files             *)

\* a legacy record whose interval is not a number
LegacyBadInterval == RawWord(Str(TrGitmek), List(<<RuIdti>>), Missing, Bad,
                             IntVal(0), IntVal(0), IntVal(0), IntVal(0))

\* a record whose correct count is not a number
BadCorrect == RawWord(Str(TrEv), List(<<RuDom>>), IntVal(1), Missing,
                      IntVal(0), IntVal(0), IntVal(0), Bad)

LoadFiles ==
    { NoFile,
      Torn,
      File(<<>>),
      File(<<Legacy>>),
      File(<<Garbled>>),
      File(<<LegacyBadInterval>>),
      File(<<BadCorrect>>),
      File(<<W(TrEv, 0, 0, 0, 3, 0), Garbled>>) }

InitLoad ==
    /\ phase = "boot"
    /\ disk \in LoadFiles
    /\ words = <<>>
    /\ pool = <<>>
    /\ current = 0
    /\ now = Epoch
    /\ lastOp = "none"
    /\ ret = Returned
    /\ NoUi

NextLoad == Load \/ next_card \/ Tick

SpecLoad == InitLoad /\ [][NextLoad]_vars

---------------------------------------------------------------------------
(* TurkishCardsApp: build, load_next and the handlers of the gestures      *)

\* TurkishCardsApp.build: the engine is constructed, the card is cleared and
\* load_next is given to Clock.schedule_once
build ==
    /\ StudyEngine_init
    /\ front' = <<>>
    /\ back' = <<>>
    /\ revealed' = FALSE
    /\ scheduled' = (phase' = "ready")

\* load_next on an engine that holds the collection ws, written as file d:
\* next_card, then the card or the pause screen is put on display
load_next_on(ws, d) ==
    /\ lastOp' = "next_card"
    /\ pool' = refresh_pool(ws, now)
    /\ IF pool' = <<>>
       THEN /\ ret' = NoCard
            /\ words' = ws
            /\ disk' = d
            /\ front' = <<>>
            /\ back' = <<>>
            /\ revealed' = FALSE
            /\ UNCHANGED <<phase, current>>
       ELSE \E c \in pick_from_pool(ws, pool'), side \in BOOLEAN, wr \in WriteOutcomes :
              /\ current' = c
              /\ words' = [ws EXCEPT ![c] = DrawnWord(ws[c])]
              /\ IF ws[c].again > 0 /\ SaveRaises(wr)
                 THEN /\ disk' = save_words(words', d, wr)
                      /\ phase' = "crashed"
                      /\ ret' = Raised
                      /\ UNCHANGED <<front, back, revealed>>
                 ELSE /\ ws[c].again = 0 => wr = "ok"
                      /\ disk' = IF ws[c].again > 0 THEN save_words(words', d, wr) ELSE d
                      /\ ret' = Card(words'[c], side)
                      /\ front' = ret'.front
                      /\ back' = ret'.back
                      /\ revealed' = FALSE
                      /\ UNCHANGED phase

\* the load_next that build scheduled
load_next ==
    /\ phase = "ready"
    /\ scheduled
    /\ scheduled' = FALSE
    /\ UNCHANGED now
    /\ load_next_on(words, disk)

\* TurkishCardsApp.reveal, called by SwipeCard.on_touch_up on a tap
reveal ==
    /\ phase = "ready"
    /\ revealed' = (revealed \/ front # <<>>)
    /\ UNCHANGED <<engine, front, back, scheduled>>

\* an answer of the app that raised: load_next is not reached
AnswerRaised(op, ws, wr) ==
    /\ words' = ws
    /\ disk' = save_words(ws, disk, wr)
    /\ phase' = "crashed"
    /\ ret' = Raised
    /\ lastOp' = op
    /\ UNCHANGED <<pool, current, front, back, revealed>>

\* a swipe that is ignored because the card is not revealed
Ignored == UNCHANGED <<engine, front, back, revealed>>

\* the engine call of a swipe (op) leaving the record w in place of the
\* current one, followed by load_next
Answer(op, w) ==
    \E wr \in WriteOutcomes :
        IF SaveRaises(wr)
        THEN AnswerRaised(op, [words EXCEPT ![current] = w], wr)
        ELSE load_next_on([words EXCEPT ![current] = w], Saved([words EXCEPT ![current] = w]))

\* TurkishCardsApp.swipe_right answering without looking at revealed
swipe_right_unrevealed ==
    /\ phase = "ready"
    /\ UNCHANGED <<now, scheduled>>
    /\ IF current = 0
       THEN load_next_on(words, disk)
       ELSE /\ words[current].correct < MaxCorrect
            /\ Answer("answer_know", KnownWord(words[current], now))

\* TurkishCardsApp.swipe_right, called by SwipeCard.on_touch_up
swipe_right ==
    /\ phase = "ready"
    /\ UNCHANGED <<now, scheduled>>
    /\ IF ~revealed
       THEN Ignored
       ELSE IF current = 0
            THEN load_next_on(words, disk)
            ELSE /\ words[current].correct < MaxCorrect
                 /\ Answer("answer_know", KnownWord(words[current], now))

\* TurkishCardsApp.swipe_left, called by SwipeCard.on_touch_up
swipe_left ==
    /\ phase = "ready"
    /\ UNCHANGED <<now, scheduled>>
    /\ IF ~revealed
       THEN Ignored
       ELSE IF current = 0
            THEN load_next_on(words, disk)
            ELSE Answer("answer_dont_know", UnknownWord(words[current]))

NextApp == build \/ load_next \/ reveal \/ swipe_right \/ swipe_left \/ Tick

SpecApp == Init /\ [][NextApp]_vars

---------------------------------------------------------------------------

(* The engine when every presented card is answered "know"                 *)

\* dictionaries whose words are one cooldown or none away from MAX_STAGE
LiveFiles ==
    { File(<<W(TrAlmak, 5, 0, 0, 0, 0), W(TrEv, 5, 1, Epoch + day_seconds(TickDays), 2, 0)>>),
      File(<<W(TrGitmek, 5, 1, 0, 3, 0), W(TrAlmak, 5, 2, 0, 0, 0), W(TrEv, 9, 0, 0, 0, 0)>>),
      File(<<W(TrGuzel, 5, 2, Epoch + day_seconds(1), 0, 0)>>) }

InitLive ==
    /\ phase = "boot"
    /\ disk \in LiveFiles
    /\ words = <<>>
    /\ pool = <<>>
    /\ current = 0
    /\ now = Epoch
    /\ lastOp = "none"
    /\ ret = Returned
    /\ NoUi

NextLive == Load \/ next_card \/ (CardShown /\ answer_know) \/ Tick

\* the caller keeps asking for cards and answers each of them, the clock
\* keeps moving, and random.choices leaves out no member of the pool for ever
FairLive ==
    /\ WF_vars(Load)
    /\ WF_vars(Tick)
    /\ WF_vars(next_card)
    /\ WF_vars(CardShown /\ answer_know)
    /\ \A i \in 1..3 : SF_vars(next_card /\ current' = i)

SpecLive == InitLive /\ [][NextLive]_vars /\ FairLive

---------------------------------------------------------------------------

(* Properties                                                              *)

\* the step is one call of the operation op on a constructed engine
StepOf(op) == phase = "ready" /\ lastOp' = op /\ now' = now

Eligible(w) == w.due <= now /\ w.stage < 6

\* C1: every word record has 0 <= stage <= 6 and 0 <= again_penalty <= 10,
\* after loading any file and after any sequence of operations
C1_FieldRanges ==
    \A i \in 1..Len(words) :
        /\ 0 <= words[i].stage /\ words[i].stage <= 6
        /\ 0 <= words[i].again /\ words[i].again <= 10

\* a word answered wrongly down to stage 0 with the penalty at its cap, next
\* to a word loaded from a file that held stage 9 and penalty 15
C1_Witness ==
    /\ lastOp = "answer_dont_know"
    /\ current # 0
    /\ words[current].stage = 0
    /\ words[current].again = 10
    /\ \E j \in 1..Len(words) : j # current /\ words[j].stage = 6 /\ words[j].again = 10

\* C2: next_card never returns, and never makes current, a word of stage 6,
\* whatever its due value
C2_LearnedNeverDrawn ==
    [][ /\ (StepOf("next_card") /\ ret'.kind # "none") =>
              /\ current' \in 1..Len(words)
              /\ words[current'].stage < 6
              /\ words'[current'].stage < 6
        /\ current' # current => words'[current'].stage < 6 ]_vars

\* next_card has run on a collection that holds a word brought to stage 6 by
\* three correct answers, with due 0
C2_Witness ==
    /\ lastOp = "next_card"
    /\ \E j \in 1..Len(words) :
          words[j].stage = 6 /\ words[j].due = 0 /\ words[j].correct = 3

\* C3: when every answer is given to the card next_card returned last, an
\* answer_know that promotes a word to stage s < 6 at time t sets its due to
\* t + d * 86400 with d = 1, 2, 4, 7, 14 for s = 1..5, any other answer_know
\* sets due to 0, next_card returns no word before its due time, and no step
\* changes a word whose due time lies ahead
C3_CooldownRespected ==
    [][ /\ (StepOf("answer_know") /\ current # 0) =>
              LET w == words[current]
                  v == words'[current]
                  days == <<1, 2, 4, 7, 14>>
              IN  IF v.stage # w.stage /\ v.stage < 6
                  THEN v.due = now + days[v.stage] * 86400
                  ELSE v.due = 0
        /\ (StepOf("next_card") /\ ret'.kind # "none") => words[current'].due <= now
        /\ \A i \in 1..Len(words) : words[i].due > now => words'[i] = words[i] ]_vars

\* a word promoted to stage 5 is still on cooldown after the clock has moved,
\* and next_card returned none
C3_Witness ==
    /\ lastOp = "next_card"
    /\ ret.kind = "none"
    /\ now > Epoch
    /\ \E i \in 1..Len(words) :
          words[i].stage = 5 /\ words[i].due > now /\ words[i].correct = 1

\* C4: on a word next_card can return (stage below 6), answer_know with the
\* streak at 0 or 1 leaves the stage and raises the streak by one, and the
\* third answer_know (streak 2) raises the stage by exactly 1 and sets the
\* streak to 0; from stage 5 it gives stage 6, streak 0, due 0
C4_ThreeKnowsGraduate ==
    [][ (StepOf("answer_know") /\ current # 0 /\ words[current].stage < 6) =>
          LET w == words[current]
              v == words'[current]
          IN  /\ w.streak \in {0, 1} => v.stage = w.stage /\ v.streak = w.streak + 1
              /\ w.streak = 2 => v.stage = w.stage + 1 /\ v.streak = 0
              /\ (w.streak = 2 /\ w.stage = 5) => v.stage = 6 /\ v.due = 0 ]_vars

\* the word loaded with stage 5, streak 0 and no correct answer, after three
\* answer_know
C4_Witness ==
    /\ lastOp = "answer_know"
    /\ current # 0
    /\ words[current].stage = 6
    /\ words[current].streak = 0
    /\ words[current].due = 0
    /\ words[current].correct = 3
    /\ words[current].tr = TrAlmak

\* C5: answer_dont_know on the current word gives stage max(0, stage - 1),
\* streak 0, due 0, again_penalty min(10, again_penalty + 2) and changes no
\* other field of it
C5_DontKnowEffect ==
    [][ (StepOf("answer_dont_know") /\ current # 0) =>
          LET w == words[current]
          IN  words'[current] =
                [w EXCEPT !.stage = IF w.stage - 1 > 0 THEN w.stage - 1 ELSE 0,
                          !.streak = 0,
                          !.due = 0,
                          !.again = IF w.again + 2 < 10 THEN w.again + 2 ELSE 10] ]_vars

\* the scenario of the specification: a word of stage 2 and penalty 0 after
\* one answer_dont_know
C5_Witness ==
    /\ lastOp = "answer_dont_know"
    /\ current # 0
    /\ words[current].stage = 1
    /\ words[current].streak = 0
    /\ words[current].due = 0
    /\ words[current].again = 2
    /\ words[current].correct = 0
    /\ words[current].tr = TrPhrase

\* C6: in every step, a word whose stage changes, or that answer_dont_know
\* is applied to, has streak 0 after the step
C6_StreakReset ==
    [][ \A i \in 1..Len(words) :
          (\/ words'[i].stage # words[i].stage
           \/ StepOf("answer_dont_know") /\ i = current) =>
          words'[i].streak = 0 ]_vars

\* a word just promoted by answer_know: its cooldown has started
C6_Witness ==
    /\ lastOp = "answer_know"
    /\ current # 0
    /\ words[current].stage \in 1..5
    /\ words[current].due > now
    /\ words[current].streak = 0

\* C7: next_card returns a card iff some word is eligible when it is called,
\* none iff no word is, and the card's word is one of the eligible words
C7_CardIffEligible ==
    [][ StepOf("next_card") =>
          /\ ret'.kind = "card" <=> \E i \in 1..Len(words) : Eligible(words[i])
          /\ ret'.kind = "none" <=> ~ \E i \in 1..Len(words) : Eligible(words[i])
          /\ ret'.kind = "card" => current' # 0 /\ Eligible(words[current']) ]_vars

\* C8: after refresh_pool the pool has at most 40 entries, and when at least
\* 14 eligible infinitive verbs exist it holds at least 14 infinitive verbs
C8_PoolSizeAndVerbShare ==
    lastOp = "next_card" =>
        /\ Len(pool) <= 40
        /\ Cardinality({i \in 1..Len(words) :
               Eligible(words[i]) /\ is_infinitive_verb(words[i].tr)}) >= 14
           => Cardinality({i \in {pool[k] : k \in 1..Len(pool)} :
                  is_infinitive_verb(words[i].tr)}) >= 14

\* more than 40 eligible words, more than 14 of them verbs that sort after the
\* other words: the pool is full and holds exactly 14 verbs
C8_Witness ==
    /\ lastOp = "next_card"
    /\ Len(pool) = 40
    /\ Cardinality({i \in 1..Len(words) : Eligible(words[i])}) > 40
    /\ Cardinality({i \in 1..Len(words) :
           Eligible(words[i]) /\ is_infinitive_verb(words[i].tr)}) > 14
    /\ Cardinality({i \in {pool[k] : k \in 1..Len(pool)} :
           is_infinitive_verb(words[i].tr)}) = 14
    /\ \E i \in 1..Len(words) : words[i].stage = 2 /\ is_infinitive_verb(words[i].tr)

\* C9: a completed operation that changes a word record has written the
\* collection, and once the file holds the collection it holds it after
\* every completed operation
C9_SavedAfterEveryChange ==
    [][ (phase = "ready" /\ phase' = "ready") =>
          /\ words' # words => disk' = Saved(words')
          /\ disk = Saved(words) => disk' = Saved(words') ]_vars

\* next_card drew the word loaded with penalty 9, decremented it and wrote
\* the collection
C9_Witness ==
    /\ lastOp = "next_card"
    /\ ret.kind = "card"
    /\ words[current].again = 8
    /\ words[current].tr = TrPadded
    /\ disk = Saved(words)
    /\ disk.data[current].again = IntVal(8)

\* C10: a failed write during next_card, answer_know or answer_dont_know is
\* swallowed: no error reaches the caller and the engine keeps working
C10_WriteFailureSwallowed ==
    lastOp \in {"next_card", "answer_know", "answer_dont_know"} =>
        ret.kind # "raised" /\ phase = "ready"

\* the value the field x of a file's record is read as: its integer when
\* int() accepts it, otherwise the default 0
ReadAs(x) == IF x.k \in {"int", "coerce"} THEN x.v ELSE 0

\* the stage a file's record is read as: its stage, or the one its legacy
\* interval migrates to (stage 0 when the interval is missing or no number)
StageReadAs(w) ==
    IF w.stage.k # "missing" THEN Clamp(0, MAX_STAGE, ReadAs(w.stage))
    ELSE IF w.interval.k \in {"int", "coerce"}
         THEN Clamp(0, MAX_STAGE, w.interval.v - 1)
         ELSE 0

\* the persisted file cannot be used: it is missing, unreadable or corrupt
Unusable(d) == ~d.exists \/ ~d.ok

\* C11: engine construction never fails the caller: it always completes, and
\* when the persisted file is missing, unreadable or corrupt the engine holds
\* the normalized default records, or the records of the seed
C11_LoadNeverFails ==
    [][ (phase = "boot" /\ lastOp' = "load") =>
          /\ phase' = "ready"
          /\ ret'.kind # "raised"
          /\ Unusable(disk) =>
               \/ words' = load_words(NoFile)
               \/ \E seed \in Seeds : seed.exists /\ seed.ok /\ words' = load_words(seed) ]_vars

\* C12: normalization never raises: loading a readable file completes and
\* every numeric field that is missing or not a number holds its default
C12_NormalizeNeverRaises ==
    [][ (phase = "boot" /\ lastOp' = "load" /\ disk.exists /\ disk.ok) =>
          /\ phase' = "ready"
          /\ Len(words') = Len(disk.data)
          /\ \A i \in 1..Len(disk.data) :
               /\ words'[i].stage = StageReadAs(disk.data[i])
               /\ words'[i].streak = ReadAs(disk.data[i].streak)
               /\ words'[i].due = ReadAs(disk.data[i].due)
               /\ words'[i].again = Clamp(0, AGAIN_CAP, ReadAs(disk.data[i].again))
               /\ words'[i].correct = ReadAs(disk.data[i].correct) ]_vars

\* C13: next_card changes at most the drawn record and only its
\* again_penalty, which goes down by exactly 1 when it was positive, and a
\* call that returns has then written the collection; every other field and
\* every other record is unchanged; with a penalty of 0, or with no card,
\* nothing is changed and nothing is written
C13_NextCardFrame ==
    [][ StepOf("next_card") =>
          IF ret'.kind = "none"
          THEN words' = words /\ disk' = disk
          ELSE /\ current' \in 1..Len(words)
               /\ Len(words') = Len(words)
               /\ \A i \in 1..Len(words) : i # current' => words'[i] = words[i]
               /\ words'[current'] =
                    [words[current'] EXCEPT !.again = IF @ > 0 THEN @ - 1 ELSE 0]
               /\ words'[current'].again >= 0
               /\ words[current'].again > 0 /\ phase' = "ready" => disk' = Saved(words')
               /\ words[current'].again = 0 => words' = words /\ disk' = disk ]_vars

\* next_card drew the second of two words, whose penalty of 2 went down to 1
\* and was written, while the first word kept its penalty
C13_Witness ==
    /\ lastOp = "next_card"
    /\ ret.kind = "card"
    /\ Len(words) = 2
    /\ current = 2
    /\ words[2].again = 1
    /\ words[1].again = 2
    /\ disk = Saved(words)

\* C14: answer_know and answer_dont_know change only the record of the
\* current word; with no current word they change no record and write nothing
C14_AnswerFrame ==
    [][ (StepOf("answer_know") \/ StepOf("answer_dont_know")) =>
          /\ Len(words') = Len(words)
          /\ \A i \in 1..Len(words) : i # current => words'[i] = words[i]
          /\ current = 0 => words' = words /\ disk' = disk ]_vars

\* the first of two words was answered "don't know": it lost its streak and
\* got the penalty, the second word still has the streak it was loaded with
C14_Witness ==
    /\ lastOp = "answer_dont_know"
    /\ Len(words) = 2
    /\ current = 1
    /\ words[1].again = AGAIN_STEP
    /\ words[1].streak = 0
    /\ words[2].streak = 2
    /\ words[2].again = 0

\* the eligible records of the collection
EligibleWords == { i \in 1..Len(words) : Eligible(words[i]) }

\* C15: after every refresh_pool, also on collections that hold records with
\* identical field values, the pool has exactly min(POOL_SIZE, number of
\* eligible words) entries, each of them eligible, and no record twice
C15_PoolExact ==
    (phase = "ready" /\ lastOp = "next_card") =>
        /\ Len(pool) = Min(POOL_SIZE, Cardinality(EligibleWords))
        /\ \A k \in 1..Len(pool) : pool[k] \in EligibleWords
        /\ \A k, l \in 1..Len(pool) : k # l => pool[k] # pool[l]

\* C16: the current word is none or the word of the card the most recent
\* next_card returned: an answer that follows a next_card call which returned
\* none changes no word record, and an answer never changes a word that is on
\* cooldown or learned
C16_NoAnswerWithoutCard ==
    [][ ((StepOf("answer_know") \/ StepOf("answer_dont_know")) /\ lastOp = "next_card") =>
          /\ ret.kind = "none" => words' = words
          /\ \A i \in 1..Len(words) : words'[i] # words[i] => Eligible(words[i]) ]_vars

\* C17: every word record has streak >= 0 in every reachable state, right
\* after loading any file and after any sequence of operations
C17_StreakNonNegative ==
    \A i \in 1..Len(words) : words[i].streak >= 0

\* the step is a gesture handled by the app, not the scheduled load_next
Gesture == phase = "ready" /\ scheduled' = scheduled /\ now' = now

\* the step changed record i the way an answer does
Answered(i) ==
    \/ words'[i].stage # words[i].stage
    \/ words'[i].streak # words[i].streak
    \/ words'[i].due # words[i].due
    \/ words'[i].correct # words[i].correct
    \/ words'[i].again > words[i].again

\* the card on display shows the record w
Shows(w) == \E side \in BOOLEAN : front = Card(w, side).front /\ back = Card(w, side).back

\* C18: in the app an answer reaches the engine only for the card that is
\* presented and revealed, and at most once per presented card (the card is
\* replaced and unrevealed by the answer); a swipe before the reveal, a
\* repeated swipe and any gesture on the pause / all-learned screen change no
\* word record
C18_AnswerOnlyRevealedCard ==
    [][ Gesture =>
          /\ (~revealed \/ front = <<>>) => words' = words /\ disk' = disk
          /\ \A i \in 1..Len(words) :
               Answered(i) =>
                   /\ revealed
                   /\ front # <<>>
                   /\ i = current
                   /\ Shows(words[i])
                   /\ ~revealed' \/ phase' = "crashed" ]_vars

\* the revealed card of the first word was swiped right: the word has one
\* more correct answer and the next card is presented, not yet revealed
C18_Witness ==
    /\ phase = "ready"
    /\ Len(words) = 2
    /\ words[1].correct = 3
    /\ ret.kind = "card"
    /\ front = ret.front
    /\ ~revealed

\* a card is on display
Presented == phase = "ready" /\ ~scheduled /\ lastOp = "next_card" /\ ret.kind = "card"

\* C19: the app never gets stuck on a presented card: a tap reveals it, and
\* a swipe handled on the revealed card ends with load_next (the next card or
\* the pause screen is on display, not revealed)
C19_NeverStuck ==
    /\ [](Presented /\ ~revealed => ENABLED (reveal /\ revealed'))
    /\ [][ (Presented /\ revealed /\ Gesture /\ phase' = "ready") =>
             lastOp' = "next_card" /\ ~revealed' ]_vars

\* every word is learned
AllLearned == phase = "ready" /\ \A i \in 1..Len(words) : words[i].stage = MAX_STAGE

\* C20: when every presented card is answered with answer_know, time keeps
\* advancing and the draw is fair, every word of a constructed engine
\* eventually reaches stage MAX_STAGE, and from then on next_card returns none
C20_AllLearnedEventually ==
    /\ (phase = "ready") ~> AllLearned
    /\ [][ (AllLearned /\ StepOf("next_card")) => (AllLearned' /\ ret'.kind = "none") ]_vars

====
